---- MODULE Spec2Model ----
(***************************************************************************)
(* Scheduling and consistency engine of the cinema application:            *)
(* Film / Seance models (cinema/models.py) and the bulk creation form      *)
(* (cinema/admin.py).  Instants are minutes since 00:00 of day 0, dates    *)
(* are day numbers, day 0 is a Monday.                                     *)
(***************************************************************************)
EXTENDS Integers, Sequences, FiniteSets, TLC

VARIABLES films, seances, nextId, now, last, procs

vars == <<films, seances, nextId, now, last, procs>>

(* ------------------------------ bounds --------------------------------- *)
\* number of showtime primary keys the store hands out
MaxSeances == 2
\* last day of the date range offered to the bulk form
MaxDay == 1

(* --------------------------- program constants ------------------------- *)
\* NULL / None of a nullable column or of an unsaved primary key
NoValue == -1
\* getattr(settings, "CINEMA_TURNOVER_MINUTES", 30)
CINEMA_TURNOVER_MINUTES == 30
\* timedelta(days=1), datetime.combine(date, time)
MinutesPerDay == 1440
\* date.weekday() is in 0..6, Monday is 0
DaysPerWeek == 7

NOW_SHOWING == "NOW"
COMING_SOON == "SOON"
ARCHIVED == "ARCH"
Status == {NOW_SHOWING, COMING_SOON, ARCHIVED}

(* ------------------------------ input sets ----------------------------- *)
FilmIds == {1, 2}
Salles == {1, 2}
Durations == {NoValue, 120, 150}
ReleaseDates == {NoValue, 0, 1}
\* 10:00 and 12:30 of day 0: a 120-minute film at 10:00 frees the hall exactly at 12:30,
\* a 150-minute film does not
StartTimes == {600, 750}
\* a caller-supplied ends_at: absent, or some instant
SuppliedEnds == {NoValue, 700}
\* the instants the clock takes, in order
Clock == <<540, 600, 800, 2100>>
\* cleaned "times" of the bulk form, as minutes of the day (10:00, 12:30)
TimeLists == {<<600>>, <<600, 750>>, <<600, 600>>}
\* no filter, or Mondays only
WeekdayFilters == {{}, {0}}
Days == 0..MaxDay
\* requests served at the same time
ProcIds == {1, 2}
\* 10:00 of day 0 and 10:00 of day 1
StatusStartTimes == {600, 2040}
\* 10:00, 12:15, 12:29, 12:30, 12:31 of day 0
CleanStarts == {600, 735, 749, 750, 751}
\* the "times" field split on blanks, commas and semicolons; a token is <<hours, minutes>>
\* as written: "", "10:00", "10:00, 12:30", "10:00, 25:00", "25:00, 10:60", "25:00 10:00 10:60"
RawTimes == {<<>>, <<<<10, 0>>>>, <<<<10, 0>>, <<12, 30>>>>, <<<<10, 0>>, <<25, 0>>>>,
             <<<<25, 0>>, <<10, 60>>>>, <<<<25, 0>>, <<10, 0>>, <<10, 60>>>>}

NoFilm == [exists |-> FALSE, duration_minutes |-> NoValue,
           release_date |-> NoValue, status |-> COMING_SOON]

(* ------------------------------- Film ---------------------------------- *)
localdate(t) == t \div MinutesPerDay

\* has_future_seances with starts_at__gt in place of starts_at__gte
has_future_seancesGt(S, f, t) == \E s \in S : s.film = f /\ s.starts_at > t

has_future_seances(S, f, t) == \E s \in S : s.film = f /\ s.starts_at >= t

\* compute_status ending in ARCHIVED whenever there is no future seance
compute_statusArchivedFallback(F, S, f, t) ==
    LET today == localdate(t)
        rd == F[f].release_date
    IN  IF rd # NoValue /\ rd > today THEN COMING_SOON
        ELSE IF has_future_seances(S, f, t) THEN NOW_SHOWING
        ELSE ARCHIVED

compute_status(F, S, f, t) ==
    LET today == localdate(t)
        rd == F[f].release_date
    IN  IF rd # NoValue /\ rd > today THEN COMING_SOON
        ELSE IF has_future_seances(S, f, t) THEN NOW_SHOWING
        ELSE IF rd # NoValue /\ rd <= today THEN ARCHIVED
        ELSE COMING_SOON

\* refresh_status that sets the object's status and never writes the row
refresh_statusNoWrite(F, S, f, mem, t) == F

\* refresh_status(save=True) called on a film object whose in-memory status is mem:
\* the stored films after the call
refresh_status(F, S, f, mem, t) ==
    LET new_status == compute_status(F, S, f, t)
    IN  IF mem # new_status THEN [F EXCEPT ![f].status = new_status] ELSE F

(* ------------------------------ Seance --------------------------------- *)
MissingDuration(F, f) ==
    F[f].duration_minutes = NoValue \/ F[f].duration_minutes = 0

compute_ends_at(F, f, starts_at) == starts_at + F[f].duration_minutes

\* candidates with the turnover buffer forgotten on the side of the candidate's start
candidatesNoBufferBefore(S, salle, pk, starts_at, ends_at) ==
    {s \in S : /\ s.salle = salle
               /\ s.id # pk
               /\ s.starts_at < ends_at + CINEMA_TURNOVER_MINUTES
               /\ s.ends_at > starts_at}

\* candidates with ends_at__gte in place of ends_at__gt
candidatesGte(S, salle, pk, starts_at, ends_at) ==
    {s \in S : /\ s.salle = salle
               /\ s.id # pk
               /\ s.starts_at < ends_at + CINEMA_TURNOVER_MINUTES
               /\ s.ends_at >= starts_at - CINEMA_TURNOVER_MINUTES}

candidates(S, salle, pk, starts_at, ends_at) ==
    {s \in S : /\ s.salle = salle
               /\ s.id # pk
               /\ s.starts_at < ends_at + CINEMA_TURNOVER_MINUTES
               /\ s.ends_at > starts_at - CINEMA_TURNOVER_MINUTES}

\* clean() that does not test the film's duration before the overlap check
cleanNoDurationCheck(F, S, d) ==
    LET e == d.starts_at + F[d.film].duration_minutes
    IN  IF candidates(S, d.salle, d.pk, d.starts_at, e) # {}
        THEN [err |-> "conflict", ends_at |-> e]
        ELSE [err |-> "none", ends_at |-> e]

\* clean() on a draft [pk, film, salle, starts_at, ends_at]: the error raised
\* ("none" when it returns) and the ends_at it leaves on the object
clean(F, S, d) ==
    IF MissingDuration(F, d.film)
    THEN [err |-> "missing_duration", ends_at |-> d.ends_at]
    ELSE LET e == compute_ends_at(F, d.film, d.starts_at)
         IN  IF candidates(S, d.salle, d.pk, d.starts_at, e) # {}
             THEN [err |-> "conflict", ends_at |-> e]
             ELSE [err |-> "none", ends_at |-> e]

\* super().save(): INSERT when the object has no pk, UPDATE of its row otherwise.
\* saved_duration is a history field (the film's duration when the row was written),
\* read by no operation.
write(F, S, nid, d, e) ==
    LET id == IF d.pk = NoValue THEN nid ELSE d.pk
        row == [id |-> id, film |-> d.film, salle |-> d.salle,
                starts_at |-> d.starts_at, ends_at |-> e,
                saved_duration |-> F[d.film].duration_minutes]
    IN  {s \in S : s.id # id} \cup {row}

\* Seance.save() that writes the row first and validates afterwards
Seance_saveWriteFirst(F, S, nid, d, t) ==
    LET c == clean(F, S, d)
        S2 == write(F, S, nid, d, c.ends_at)
    IN  IF c.err # "none"
        THEN [err |-> c.err, films |-> F, seances |-> S2,
              nextId |-> IF d.pk = NoValue THEN nid + 1 ELSE nid, id |-> d.pk]
        ELSE [err |-> "none",
              films |-> refresh_status(F, S2, d.film, F[d.film].status, t),
              seances |-> S2,
              nextId |-> IF d.pk = NoValue THEN nid + 1 ELSE nid,
              id |-> IF d.pk = NoValue THEN nid ELSE d.pk]

\* Seance.save(): full_clean, write, refresh of the film the object references
Seance_save(F, S, nid, d, t) ==
    LET c == clean(F, S, d)
    IN  IF c.err # "none"
        THEN [err |-> c.err, films |-> F, seances |-> S, nextId |-> nid, id |-> d.pk]
        ELSE LET S2 == write(F, S, nid, d, c.ends_at)
             IN  [err |-> "none",
                  films |-> refresh_status(F, S2, d.film, F[d.film].status, t),
                  seances |-> S2,
                  nextId |-> IF d.pk = NoValue THEN nid + 1 ELSE nid,
                  id |-> IF d.pk = NoValue THEN nid ELSE d.pk]

(* ------------------------------ state ---------------------------------- *)
NoSpec == [film |-> 0, salle |-> 0, start_date |-> 0, end_date |-> 0,
           weekdays |-> {}, times |-> <<>>]

\* what the last operation was and how it ended: the film it was called with and,
\* for a successful update or a delete, the film the row referenced before; assigned is
\* the status the caller of Film.save had put on the object. For the bulk form: its
\* cleaned data, its counts, whether the run before it had the same cleaned data (and that
\* run's counts), whether the stored showtimes changed, and the starts_at its error
\* messages are tagged with; for a form that is not valid: the tokens of its "times"
\* field, the tokens its error names, and whether end_date carries an error
Outcome(op, err, film, oldFilm) ==
    [op |-> op, err |-> err, film |-> film, oldFilm |-> oldFilm,
     spec |-> NoSpec, created |-> 0, skipped |-> 0, failed |-> 0,
     repeat |-> FALSE, prevCreated |-> 0, prevSkipped |-> 0, prevFailed |-> 0,
     changed |-> FALSE, assigned |-> "", failedAt |-> <<>>,
     raw |-> <<>>, invalid |-> <<>>, end_date_error |-> FALSE]

\* a request that is not inside Seance.save
Idle == [pc |-> "idle", pk |-> NoValue, film |-> 0, salle |-> 0,
         starts_at |-> NoValue, ends_at |-> NoValue, mem |-> COMING_SOON]

Init ==
    /\ films = [f \in FilmIds |-> NoFilm]
    /\ seances = {}
    /\ nextId = 1
    /\ now = 1
    /\ last = Outcome("init", "none", 0, 0)
    /\ procs = [p \in ProcIds |-> Idle]

Instant == Clock[now]

(* ----------------------------- operations ------------------------------ *)
\* Film.save() on a film object carrying the given fields and the status st
Film_save(f, dur, rd, st) ==
    LET F1 == [films EXCEPT ![f] = [exists |-> TRUE, duration_minutes |-> dur,
                                     release_date |-> rd, status |-> st]]
    IN  /\ films' = refresh_status(F1, seances, f, st, Instant)
        /\ last' = [Outcome("film_save", "none", f, 0) EXCEPT !.assigned = st]
        /\ UNCHANGED <<seances, nextId, now, procs>>

\* film.refresh_status(save=True) on a freshly loaded film
RefreshStatus(f) ==
    /\ films[f].exists
    /\ films' = refresh_status(films, seances, f, films[f].status, Instant)
    /\ last' = Outcome("refresh", "none", f, 0)
    /\ UNCHANGED <<seances, nextId, now, procs>>

Tick ==
    /\ now < Len(Clock)
    /\ now' = now + 1
    /\ last' = Outcome("tick", "none", 0, 0)
    /\ UNCHANGED <<films, seances, nextId, procs>>

SeanceCreate(f, h, t, e) ==
    /\ films[f].exists
    /\ LET r == Seance_save(films, seances, nextId,
                    [pk |-> NoValue, film |-> f, salle |-> h,
                     starts_at |-> t, ends_at |-> e], Instant)
       IN  /\ r.nextId <= MaxSeances + 1
           /\ films' = r.films
           /\ seances' = r.seances
           /\ nextId' = r.nextId
           /\ last' = IF r.err = "none" THEN Outcome("create", "none", f, 0)
                           ELSE Outcome("create", r.err, f, 0)
    /\ UNCHANGED <<now, procs>>

\* Seance.save() on a stored row loaded and given a film, a hall and a start: the
\* object carries the ends_at that was stored
SeanceUpdate(s, f, h, t) ==
    /\ s \in seances
    /\ films[f].exists
    /\ LET r == Seance_save(films, seances, nextId,
                    [pk |-> s.id, film |-> f, salle |-> h,
                     starts_at |-> t, ends_at |-> s.ends_at], Instant)
       IN  /\ films' = r.films
           /\ seances' = r.seances
           /\ nextId' = r.nextId
           /\ last' = IF r.err = "none" THEN Outcome("update", "none", f, s.film)
                           ELSE Outcome("update", r.err, f, 0)
    /\ UNCHANGED <<now, procs>>

\* Seance.delete(): the film referenced before deletion is refreshed
SeanceDelete(s) ==
    /\ s \in seances
    /\ LET S2 == seances \ {s}
       IN  /\ seances' = S2
           /\ films' = IF films[s.film].exists
                       THEN refresh_status(films, S2, s.film, films[s.film].status, Instant)
                       ELSE films
    /\ last' = Outcome("delete", "none", 0, s.film)
    /\ UNCHANGED <<nextId, now, procs>>

(* ------------------------ BulkSeanceCreateForm -------------------------- *)
weekday(d) == d % DaysPerWeek

\* timezone.make_aware(datetime.combine(current_date, show_time), tz) for each time
DayStarts(d, times) == [i \in 1..Len(times) |-> d * MinutesPerDay + times[i]]

\* the starts_at the loops of save() visit, in order
RECURSIVE Expand(_, _, _, _)
Expand(d, end_date, weekdays, times) ==
    IF d > end_date THEN <<>>
    ELSE (IF weekdays # {} /\ weekday(d) \notin weekdays
          THEN <<>> ELSE DayStarts(d, times))
         \o Expand(d + 1, end_date, weekdays, times)

\* save() that leaves out the exists() test
NeverStored(S, f, h, t) == FALSE

\* the filter(film, salle, starts_at).exists() test of save()
AlreadyStored(S, f, h, t) ==
    \E s \in S : s.film = f /\ s.salle = h /\ s.starts_at = t

\* the loops left at the first candidate that raises
RECURSIVE BulkLoopAbort(_, _, _, _, _, _, _, _)
BulkLoopAbort(F, S, nid, f, h, cs, t, acc) ==
    IF cs = <<>>
    THEN [films |-> F, seances |-> S, nextId |-> nid, created_count |-> acc[1],
          skipped_count |-> acc[2], error_messages |-> acc[3]]
    ELSE IF AlreadyStored(S, f, h, Head(cs))
    THEN BulkLoopAbort(F, S, nid, f, h, Tail(cs), t, <<acc[1], acc[2] + 1, acc[3]>>)
    ELSE LET r == Seance_save(F, S, nid,
                      [pk |-> NoValue, film |-> f, salle |-> h,
                       starts_at |-> Head(cs), ends_at |-> NoValue], t)
         IN  IF r.err = "none"
             THEN BulkLoopAbort(r.films, r.seances, r.nextId, f, h, Tail(cs), t,
                                <<acc[1] + 1, acc[2], acc[3]>>)
             ELSE [films |-> F, seances |-> S, nextId |-> nid, created_count |-> acc[1],
                   skipped_count |-> acc[2],
                   error_messages |-> Append(acc[3], Head(cs))]

\* the body of the loops, candidate by candidate; error_messages holds the starts_at
\* each message is tagged with
RECURSIVE BulkLoop(_, _, _, _, _, _, _, _)
BulkLoop(F, S, nid, f, h, cs, t, acc) ==
    IF cs = <<>>
    THEN [films |-> F, seances |-> S, nextId |-> nid, created_count |-> acc[1],
          skipped_count |-> acc[2], error_messages |-> acc[3]]
    ELSE IF AlreadyStored(S, f, h, Head(cs))
    THEN BulkLoop(F, S, nid, f, h, Tail(cs), t, <<acc[1], acc[2] + 1, acc[3]>>)
    ELSE LET r == Seance_save(F, S, nid,
                      [pk |-> NoValue, film |-> f, salle |-> h,
                       starts_at |-> Head(cs), ends_at |-> NoValue], t)
         IN  IF r.err = "none"
             THEN BulkLoop(r.films, r.seances, r.nextId, f, h, Tail(cs), t,
                           <<acc[1] + 1, acc[2], acc[3]>>)
             ELSE BulkLoop(F, S, nid, f, h, Tail(cs), t,
                           <<acc[1], acc[2], Append(acc[3], Head(cs))>>)

\* BulkSeanceCreateForm.save() of a valid form
Bulk_save(f, h, d1, d2, wd, times) ==
    /\ films[f].exists
    /\ d1 <= d2
    /\ LET sp == [film |-> f, salle |-> h, start_date |-> d1, end_date |-> d2,
                  weekdays |-> wd, times |-> times]
           r == BulkLoop(films, seances, nextId, f, h, Expand(d1, d2, wd, times),
                         Instant, <<0, 0, <<>>>>)
           rep == last.op = "bulk" /\ last.spec = sp
       IN  /\ r.nextId <= MaxSeances + 1
           /\ films' = r.films
           /\ seances' = r.seances
           /\ nextId' = r.nextId
           /\ last' = [Outcome("bulk", "none", f, 0) EXCEPT
                          !.spec = sp,
                          !.created = r.created_count,
                          !.skipped = r.skipped_count,
                          !.failed = Len(r.error_messages),
                          !.failedAt = r.error_messages,
                          !.repeat = rep,
                          !.prevCreated = IF rep THEN last.created ELSE 0,
                          !.prevSkipped = IF rep THEN last.skipped ELSE 0,
                          !.prevFailed = IF rep THEN last.failed ELSE 0,
                          !.changed = (r.seances # seances)]
    /\ UNCHANGED <<now, procs>>

(* ------------------- BulkSeanceCreateForm validation -------------------- *)
\* datetime.strptime(part, "%H:%M") succeeds
ParsesAsTime(tok) == tok[1] \in 0..23 /\ tok[2] \in 0..59

\* datetime.strptime(part, "%H:%M").time(), as minutes of the day
ParsedTime(tok) == tok[1] * 60 + tok[2]

RECURSIVE ParseAll(_, _, _)
ParseAll(parts, parsed_times, invalid) ==
    IF parts = <<>> THEN [parsed_times |-> parsed_times, invalid |-> invalid]
    ELSE IF ParsesAsTime(Head(parts))
    THEN ParseAll(Tail(parts), Append(parsed_times, ParsedTime(Head(parts))), invalid)
    ELSE ParseAll(Tail(parts), parsed_times, Append(invalid, Head(parts)))

\* clean_times raising at the first part that does not parse
RECURSIVE ParseUntilInvalid(_, _)
ParseUntilInvalid(parts, parsed_times) ==
    IF parts = <<>> THEN [parsed_times |-> parsed_times, invalid |-> <<>>]
    ELSE IF ParsesAsTime(Head(parts))
    THEN ParseUntilInvalid(Tail(parts), Append(parsed_times, ParsedTime(Head(parts))))
    ELSE [parsed_times |-> parsed_times, invalid |-> <<Head(parts)>>]

clean_timesFirstInvalid(parts) ==
    LET r == ParseUntilInvalid(parts, <<>>)
    IN  [error |-> r.invalid # <<>> \/ r.parsed_times = <<>>,
         invalid |-> r.invalid, parsed_times |-> r.parsed_times]

\* clean_times on the parts of the field: whether it raises, the parts its message
\* names, the times it returns
clean_times(parts) ==
    LET r == ParseAll(parts, <<>>, <<>>)
    IN  [error |-> r.invalid # <<>> \/ r.parsed_times = <<>>,
         invalid |-> r.invalid, parsed_times |-> r.parsed_times]

\* clean(): end_date gets an error when it is before start_date
end_date_error(d1, d2) == d2 < d1

\* bulk_create_view on a POST: form.save() runs only when form.is_valid()
bulk_create_view(f, h, d1, d2, wd, parts) ==
    LET ct == clean_times(parts)
    IN  IF ~ct.error /\ ~end_date_error(d1, d2)
        THEN Bulk_save(f, h, d1, d2, wd, ct.parsed_times)
        ELSE /\ films[f].exists
             /\ last' = [Outcome("bulk_rejected", "invalid_form", f, 0) EXCEPT
                            !.spec = [film |-> f, salle |-> h, start_date |-> d1,
                                      end_date |-> d2, weekdays |-> wd, times |-> <<>>],
                            !.raw = parts,
                            !.invalid = ct.invalid,
                            !.end_date_error = end_date_error(d1, d2)]
             /\ UNCHANGED <<films, seances, nextId, now, procs>>

(* ------------- the status update answered by the database -------------- *)
\* Film.refresh_status(save=True) on a film object whose status is mem, when the
\* UPDATE of the status column succeeds (ok) or raises: self.status is assigned
\* before the UPDATE is sent
refresh_statusDb(F, S, f, mem, t, ok) ==
    LET new_status == compute_status(F, S, f, t)
    IN  IF mem = new_status THEN [films |-> F, mem |-> mem, raised |-> FALSE]
        ELSE IF ok THEN [films |-> [F EXCEPT ![f].status = new_status],
                         mem |-> new_status, raised |-> FALSE]
        ELSE [films |-> F, mem |-> new_status, raised |-> TRUE]

\* Seance.save(): full_clean, write of the row (committed on its own, no transaction
\* is opened), refresh of the film object; the error of the refresh reaches the caller
Seance_saveDb(F, S, nid, d, mem, t, ok) ==
    LET c == clean(F, S, d)
        S2 == write(F, S, nid, d, c.ends_at)
        rr == refresh_statusDb(F, S2, d.film, mem, t, ok)
    IN  IF c.err # "none"
        THEN [err |-> c.err, films |-> F, seances |-> S, nextId |-> nid, mem |-> mem]
        ELSE [err |-> IF rr.raised THEN "db_error" ELSE "none",
              films |-> rr.films, seances |-> S2,
              nextId |-> IF d.pk = NoValue THEN nid + 1 ELSE nid, mem |-> rr.mem]

SeanceCreateDb(f, h, t, ok) ==
    /\ films[f].exists
    /\ LET r == Seance_saveDb(films, seances, nextId,
                    [pk |-> NoValue, film |-> f, salle |-> h,
                     starts_at |-> t, ends_at |-> NoValue],
                    films[f].status, Instant, ok)
       IN  /\ r.nextId <= MaxSeances + 1
           /\ films' = r.films
           /\ seances' = r.seances
           /\ nextId' = r.nextId
           /\ last' = [Outcome("create", r.err, f, 0) EXCEPT
                          !.changed = (r.seances # seances)]
    /\ UNCHANGED <<now, procs>>

SeanceUpdateDb(s, f, h, t, ok) ==
    /\ s \in seances
    /\ films[f].exists
    /\ LET r == Seance_saveDb(films, seances, nextId,
                    [pk |-> s.id, film |-> f, salle |-> h,
                     starts_at |-> t, ends_at |-> s.ends_at],
                    films[f].status, Instant, ok)
       IN  /\ films' = r.films
           /\ seances' = r.seances
           /\ nextId' = r.nextId
           /\ last' = [Outcome("update", r.err, f, s.film) EXCEPT
                          !.changed = (r.seances # seances)]
    /\ UNCHANGED <<now, procs>>

\* Seance.delete(): the row is removed (committed on its own), then the film is
\* refreshed
SeanceDeleteDb(s, ok) ==
    /\ s \in seances
    /\ films[s.film].exists
    /\ LET S2 == seances \ {s}
           rr == refresh_statusDb(films, S2, s.film, films[s.film].status, Instant, ok)
       IN  /\ seances' = S2
           /\ films' = rr.films
           /\ last' = [Outcome("delete", IF rr.raised THEN "db_error" ELSE "none",
                               s.film, s.film) EXCEPT !.changed = TRUE]
    /\ UNCHANGED <<nextId, now, procs>>

\* the loops of BulkSeanceCreateForm.save(): every Seance is built on the one film
\* object of cleaned_data (mem is its status); bad holds the starts_at whose status
\* update the database refuses; except Exception takes any error of create()
RECURSIVE BulkLoopDb(_, _, _, _, _, _, _, _, _, _)
BulkLoopDb(F, S, nid, f, h, cs, t, acc, mem, bad) ==
    IF cs = <<>>
    THEN [films |-> F, seances |-> S, nextId |-> nid, created_count |-> acc[1],
          skipped_count |-> acc[2], error_messages |-> acc[3]]
    ELSE IF AlreadyStored(S, f, h, Head(cs))
    THEN BulkLoopDb(F, S, nid, f, h, Tail(cs), t, <<acc[1], acc[2] + 1, acc[3]>>,
                    mem, bad)
    ELSE LET r == Seance_saveDb(F, S, nid,
                      [pk |-> NoValue, film |-> f, salle |-> h,
                       starts_at |-> Head(cs), ends_at |-> NoValue],
                      mem, t, Head(cs) \notin bad)
         IN  IF r.err = "none"
             THEN BulkLoopDb(r.films, r.seances, r.nextId, f, h, Tail(cs), t,
                             <<acc[1] + 1, acc[2], acc[3]>>, r.mem, bad)
             ELSE BulkLoopDb(r.films, r.seances, r.nextId, f, h, Tail(cs), t,
                             <<acc[1], acc[2], Append(acc[3], Head(cs))>>, r.mem, bad)

Bulk_saveDb(f, h, d1, d2, wd, times, bad) ==
    /\ films[f].exists
    /\ d1 <= d2
    /\ LET sp == [film |-> f, salle |-> h, start_date |-> d1, end_date |-> d2,
                  weekdays |-> wd, times |-> times]
           r == BulkLoopDb(films, seances, nextId, f, h, Expand(d1, d2, wd, times),
                           Instant, <<0, 0, <<>>>>, films[f].status, bad)
       IN  /\ r.nextId <= MaxSeances + 1
           /\ films' = r.films
           /\ seances' = r.seances
           /\ nextId' = r.nextId
           /\ last' = [Outcome("bulk", "none", f, 0) EXCEPT
                          !.spec = sp,
                          !.created = r.created_count,
                          !.skipped = r.skipped_count,
                          !.failed = Len(r.error_messages),
                          !.failedAt = r.error_messages,
                          !.changed = (r.seances # seances)]
    /\ UNCHANGED <<now, procs>>

(* ------------------- Seance.save, statement by statement --------------- *)
\* self.full_clean(): the conflict query runs against the store as it is now; on an
\* error save() raises and the request ends
SaveClean(p, pk, f, h, t) ==
    /\ procs[p].pc = "idle"
    /\ films[f].exists
    /\ pk = NoValue \/ \E s \in seances : s.id = pk
    /\ LET d == [pk |-> pk, film |-> f, salle |-> h, starts_at |-> t, ends_at |-> NoValue]
           c == clean(films, seances, d)
       IN  procs' = [procs EXCEPT ![p] =
                        IF c.err # "none" THEN Idle
                        ELSE [pc |-> "validated", pk |-> pk, film |-> f, salle |-> h,
                              starts_at |-> t, ends_at |-> c.ends_at,
                              mem |-> films[f].status]]
    /\ UNCHANGED <<films, seances, nextId, now, last>>

\* super().save(*args, **kwargs): the row is written, no constraint of the table
\* looks at the other rows of the hall
SaveWrite(p) ==
    /\ procs[p].pc = "validated"
    /\ procs[p].pk = NoValue => nextId <= MaxSeances
    /\ seances' = write(films, seances, nextId, procs[p], procs[p].ends_at)
    /\ nextId' = IF procs[p].pk = NoValue THEN nextId + 1 ELSE nextId
    /\ procs' = [procs EXCEPT ![p].pc = "written"]
    /\ UNCHANGED <<films, now, last>>

\* self.film.refresh_status(save=True) on the film object the request holds
SaveRefresh(p) ==
    /\ procs[p].pc = "written"
    /\ films' = refresh_status(films, seances, procs[p].film, procs[p].mem, Instant)
    /\ procs' = [procs EXCEPT ![p] = Idle]
    /\ UNCHANGED <<seances, nextId, now, last>>

\* Seance.delete(), statement by statement. film = self.film: the request now holds
\* the film object of the showtime, with the status stored at this moment
DeleteLoad(p, s) ==
    /\ procs[p].pc = "idle"
    /\ s \in seances
    /\ films[s.film].exists
    /\ procs' = [procs EXCEPT ![p] =
                    [pc |-> "delete_loaded", pk |-> s.id, film |-> s.film,
                     salle |-> s.salle, starts_at |-> s.starts_at,
                     ends_at |-> s.ends_at, mem |-> films[s.film].status]]
    /\ UNCHANGED <<films, seances, nextId, now, last>>

\* super().delete(*args, **kwargs): the row of this primary key is removed
DeleteRow(p) ==
    /\ procs[p].pc = "delete_loaded"
    /\ seances' = {s \in seances : s.id # procs[p].pk}
    /\ procs' = [procs EXCEPT ![p].pc = "deleted"]
    /\ UNCHANGED <<films, nextId, now, last>>

\* film.refresh_status(save=True) on the film object kept before the deletion
DeleteRefresh(p) ==
    /\ procs[p].pc = "deleted"
    /\ films' = refresh_status(films, seances, procs[p].film, procs[p].mem, Instant)
    /\ procs' = [procs EXCEPT ![p] = Idle]
    /\ UNCHANGED <<seances, nextId, now, last>>

(* --------------------------- specifications ---------------------------- *)
\* Scheduling: films differ in duration only (no release date, clock at its
\* first instant); every showtime operation, two halls.
NextSched ==
    \/ \E f \in FilmIds, dur \in Durations : Film_save(f, dur, NoValue, COMING_SOON)
    \/ \E f \in FilmIds, h \in Salles, t \in StartTimes : SeanceCreate(f, h, t, NoValue)
    \/ \E s \in seances, f \in FilmIds, h \in Salles, t \in StartTimes :
           SeanceUpdate(s, f, h, t)
    \/ \E s \in seances : SeanceDelete(s)

SpecSched == Init /\ [][NextSched]_vars

\* Status: one hall, films of one duration, every release date, a caller-assigned
\* status, a clock that advances.
NextStatus ==
    \/ \E f \in FilmIds, rd \in ReleaseDates, st \in Status : Film_save(f, 120, rd, st)
    \/ \E f \in FilmIds : RefreshStatus(f)
    \/ Tick
    \/ \E f \in FilmIds, t \in StatusStartTimes : SeanceCreate(f, 1, t, NoValue)
    \/ \E s \in seances, f \in FilmIds, t \in StatusStartTimes :
           SeanceUpdate(s, f, 1, t)
    \/ \E s \in seances : SeanceDelete(s)

SpecStatus == Init /\ [][NextStatus]_vars


\* Scheduling at minute granularity: one film of 120 minutes, two halls, creates
\* with and without an ends_at supplied by the caller.
NextClean ==
    \/ Film_save(1, 120, NoValue, COMING_SOON)
    \/ \E h \in Salles, t \in CleanStarts, e \in SuppliedEnds : SeanceCreate(1, h, t, e)
    \/ \E s \in seances, h \in Salles, t \in CleanStarts : SeanceUpdate(s, 1, h, t)
    \/ \E s \in seances : SeanceDelete(s)

SpecClean == Init /\ [][NextClean]_vars

\* Concurrent requests: each runs Seance.save statement by statement.
NextConc ==
    \/ \E dur \in Durations \ {NoValue} : Film_save(1, dur, NoValue, COMING_SOON)
    \/ \E p \in ProcIds, pk \in {NoValue} \cup {s.id : s \in seances},
          h \in Salles, t \in StartTimes : SaveClean(p, pk, 1, h, t)
    \/ \E p \in ProcIds : SaveWrite(p)
    \/ \E p \in ProcIds : SaveRefresh(p)

SpecConc == Init /\ [][NextConc]_vars

\* Bulk creation in one hall: the form for film 1, single creates for film 2 and
\* deletes around it; films of 150 minutes or without duration.
NextBulk ==
    \/ \E f \in FilmIds, dur \in {NoValue, 150} : Film_save(f, dur, NoValue, COMING_SOON)
    \/ \E d1 \in Days, d2 \in Days, wd \in WeekdayFilters, times \in TimeLists :
           Bulk_save(1, 1, d1, d2, wd, times)
    \/ \E t \in StartTimes : SeanceCreate(2, 1, t, NoValue)
    \/ \E s \in seances : SeanceDelete(s)

SpecBulk == Init /\ [][NextBulk]_vars

\* The bulk view in one hall for film 1 of 150 minutes: any date range, valid and
\* invalid "times" fields.
NextForm ==
    \/ Film_save(1, 150, NoValue, COMING_SOON)
    \/ \E d1 \in Days, d2 \in Days, parts \in RawTimes :
           bulk_create_view(1, 1, d1, d2, {}, parts)
    \/ \E s \in seances : SeanceDelete(s)

SpecForm == Init /\ [][NextForm]_vars

\* Film objects held across other requests: one film released on day 0, concurrent
\* requests creating showtimes (Seance.save) and deleting them (Seance.delete), each
\* statement by statement; the clock stays at its first instant.
NextStale ==
    \/ Film_save(1, 120, 0, COMING_SOON)
    \/ \E p \in ProcIds, h \in Salles : SaveClean(p, NoValue, 1, h, 600)
    \/ \E p \in ProcIds : SaveWrite(p)
    \/ \E p \in ProcIds : SaveRefresh(p)
    \/ \E p \in ProcIds, s \in seances : DeleteLoad(p, s)
    \/ \E p \in ProcIds : DeleteRow(p)
    \/ \E p \in ProcIds : DeleteRefresh(p)

SpecStale == Init /\ [][NextStale]_vars

\* A database that may refuse the status update: one hall, two films without release
\* date, single showtime operations and the bulk form over one day.
NextFail ==
    \/ \E f \in FilmIds : Film_save(f, 120, NoValue, COMING_SOON)
    \/ \E f \in FilmIds, t \in StartTimes, ok \in BOOLEAN : SeanceCreateDb(f, 1, t, ok)
    \/ \E s \in seances, f \in FilmIds, t \in StartTimes, ok \in BOOLEAN :
           SeanceUpdateDb(s, f, 1, t, ok)
    \/ \E s \in seances, ok \in BOOLEAN : SeanceDeleteDb(s, ok)
    \/ \E d \in Days, times \in TimeLists, bad \in SUBSET StartTimes :
           Bulk_saveDb(1, 1, d, d, {}, times, {d * MinutesPerDay + x : x \in bad})

SpecFail == Init /\ [][NextFail]_vars

(* ------------------------------- claims -------------------------------- *)
SameHall(a, b) == a.id # b.id /\ a.salle = b.salle

\* C1: any two distinct stored showtimes of one hall are apart by at least the
\* turnover buffer: A.ends_at + buffer <= B.starts_at or B.ends_at + buffer <= A.starts_at.
C1_NoOverlap ==
    \A a \in seances, b \in seances :
        SameHall(a, b) =>
            \/ a.ends_at + CINEMA_TURNOVER_MINUTES <= b.starts_at
            \/ b.ends_at + CINEMA_TURNOVER_MINUTES <= a.starts_at

\* two showtimes share a hall right after a successful update
C1_Witness ==
    /\ last.op = "update" /\ last.err = "none"
    /\ \E a \in seances, b \in seances : SameHall(a, b)

\* C3 (as claimed): every stored showtime ends at starts_at + the current duration
\* of its film, also after the film's duration is changed by Film.save.
C3_EndsAtFollowsFilm ==
    \A s \in seances : s.ends_at = s.starts_at + films[s.film].duration_minutes

\* C4: a save for a film without duration fails with the missing-duration error,
\* and no stored showtime was written for a film that lacked a duration then.
C4_MissingDurationFails ==
    /\ (last.op \in {"create", "update"} /\ MissingDuration(films, last.film))
           => last.err = "missing_duration"
    /\ (last.err = "missing_duration") => MissingDuration(films, last.film)
    /\ \A s \in seances : s.saved_duration # NoValue /\ s.saved_duration > 0

\* a save was refused for the missing duration while the schedule is not empty
C4_Witness ==
    /\ last.op \in {"create", "update"} /\ last.err = "missing_duration"
    /\ seances # {}

\* C9: clean rejects a candidate as conflicting exactly when another stored showtime
\* of the same hall (any but the row being updated) has starts_at < candidate.ends_at
\* + buffer and ends_at > candidate.starts_at - buffer; with a buffer of 30 minutes and
\* a stored 10:00-12:00 showtime, 12:15 is rejected and 12:31 is accepted.
C9_Draft(pk, h, t) ==
    [pk |-> pk, film |-> 1, salle |-> h, starts_at |-> t, ends_at |-> NoValue]

C9_CleanRejectsIff ==
    /\ \A h \in Salles, t \in CleanStarts, pk \in {NoValue} \cup {s.id : s \in seances} :
           (films[1].exists /\ ~MissingDuration(films, 1)) =>
               ( clean(films, seances, C9_Draft(pk, h, t)).err = "conflict"
                 <=> \E x \in seances :
                        /\ x.id # pk /\ x.salle = h
                        /\ x.starts_at < t + films[1].duration_minutes + CINEMA_TURNOVER_MINUTES
                        /\ x.ends_at > t - CINEMA_TURNOVER_MINUTES )
    /\ \A h \in Salles :
           ( /\ CINEMA_TURNOVER_MINUTES = 30
             /\ {<<x.starts_at, x.ends_at>> : x \in {y \in seances : y.salle = h}}
                    = {<<600, 720>>} ) =>
               /\ clean(films, seances, C9_Draft(NoValue, h, 735)).err = "conflict"
               /\ clean(films, seances, C9_Draft(NoValue, h, 751)).err = "none"
    /\ ~ \E a \in seances, b \in seances :
           SameHall(a, b) /\ a.starts_at = 600 /\ a.ends_at = 720 /\ b.starts_at = 735

\* a hall holds the 10:00-12:00 showtime and the accepted 12:31 one, and a candidate
\* has just been refused as conflicting
C9_Witness ==
    /\ last.op = "create" /\ last.err = "conflict"
    /\ \E a \in seances, b \in seances :
           SameHall(a, b) /\ a.starts_at = 600 /\ a.ends_at = 720 /\ b.starts_at = 751

SeancesOf(f) == {s \in seances : s.film = f}

Derived(f) == compute_status(films, seances, f, Instant)

\* C5 (as claimed): right after a successful showtime create, update or delete, the film
\* that owned the row before (if it exists) and the film that owns it afterwards both
\* carry the status compute_status derives.
C5_OwnersRefreshed ==
    (last.op \in {"create", "update", "delete"} /\ last.err = "none") =>
        \A f \in {last.film, last.oldFilm} \ {0} :
            films[f].exists => films[f].status = Derived(f)

\* C6: when Film.save returns, the stored status is the one compute_status derives,
\* whatever status the caller had assigned to the object.
C6_StatusNotWritable ==
    last.op = "film_save" => films[last.film].status = Derived(last.film)

\* Film.save has returned for a film with a showtime, called with a status other than
\* the derived one
C6_Witness ==
    /\ last.op = "film_save"
    /\ last.assigned # Derived(last.film)
    /\ SeancesOf(last.film) # {}

\* C7: compute_status is the rule table of release date (unknown, after today, today or
\* earlier) and of the existence of a showtime starting at or after the current instant,
\* and does not read the stored status.
C7_Table(f) ==
    LET rd == films[f].release_date
        today == Instant \div MinutesPerDay
        future == \E s \in SeancesOf(f) : ~(s.starts_at < Instant)
    IN  CASE rd # NoValue /\ today < rd -> COMING_SOON
          [] rd # NoValue /\ ~(today < rd) /\ future -> NOW_SHOWING
          [] rd # NoValue /\ ~(today < rd) /\ ~future -> ARCHIVED
          [] rd = NoValue /\ future -> NOW_SHOWING
          [] rd = NoValue /\ ~future -> COMING_SOON

C7_ComputeStatusRules ==
    /\ \A f \in FilmIds : films[f].exists =>
           /\ Derived(f) = C7_Table(f)
           /\ \A st \in Status :
                  compute_status([films EXCEPT ![f].status = st], seances, f, Instant)
                      = C7_Table(f)
    /\ (last.op \in {"refresh", "film_save"}) =>
           films[last.film].status = C7_Table(last.film)

\* a refresh found a released film whose only showtime starts at the current instant
C7_Witness ==
    /\ last.op = "refresh"
    /\ films[last.film].release_date # NoValue
    /\ films[last.film].release_date <= localdate(Instant)
    /\ SeancesOf(last.film) # {}
    /\ \A s \in SeancesOf(last.film) : s.starts_at = Instant
    /\ films[last.film].status = NOW_SHOWING

C8_OneFuture(f) ==
    /\ films[f].release_date = NoValue
    /\ Cardinality(SeancesOf(f)) = 1
    /\ \A s \in SeancesOf(f) : s.starts_at > Instant

C8_OnePassed(f) ==
    /\ films[f].release_date = NoValue
    /\ Cardinality(SeancesOf(f)) = 1
    /\ \A s \in SeancesOf(f) : s.starts_at < Instant

\* C8 (as claimed): a film without release date is NOW_SHOWING once its single future
\* showtime is saved, and the refresh that follows the passing of that showtime sets
\* its status to ARCHIVED.
C8_ArchivedAfterShowtime ==
    /\ (last.op \in {"create", "update"} /\ last.err = "none" /\ C8_OneFuture(last.film))
           => films[last.film].status = NOW_SHOWING
    /\ (last.op = "refresh" /\ C8_OnePassed(last.film))
           => films[last.film].status = ARCHIVED

\* C8 (amended): as above, but the refresh that follows the passing of the showtime
\* sets the status to COMING_SOON, the status of a film with neither release date nor
\* future showtime.
C8_ComingSoonAfterShowtime ==
    /\ (last.op \in {"create", "update"} /\ last.err = "none" /\ C8_OneFuture(last.film))
           => films[last.film].status = NOW_SHOWING
    /\ (last.op = "refresh" /\ C8_OnePassed(last.film))
           => films[last.film].status = COMING_SOON

\* the refresh has run after the single showtime of a film without release date passed
C8_Witness == last.op = "refresh" /\ C8_OnePassed(last.film)

Overlap(a, b) ==
    /\ a.starts_at < b.ends_at + CINEMA_TURNOVER_MINUTES
    /\ b.starts_at < a.ends_at + CINEMA_TURNOVER_MINUTES

\* C2 (as claimed): with the conflict read and the write of concurrent saves interleaved
\* in any order, no state holds two stored showtimes of one hall whose buffered
\* intervals overlap.
C2_NoRaceOverlap ==
    \A a \in seances, b \in seances : SameHall(a, b) => ~Overlap(a, b)

\* C10: a second run of the bulk form with the same cleaned data, nothing else having
\* touched the store, creates nothing, reports as skipped every candidate the first run
\* created (or skipped), leaves the stored showtimes as they are; no (film, hall,
\* starts_at) triple is stored twice.
C10_BulkIdempotent ==
    /\ (last.op = "bulk" /\ last.repeat) =>
           /\ last.created = 0
           /\ last.skipped = last.prevCreated + last.prevSkipped
           /\ last.failed = last.prevFailed
           /\ ~last.changed
    /\ \A a \in seances, b \in seances :
           (a.film = b.film /\ a.salle = b.salle /\ a.starts_at = b.starts_at)
               => a.id = b.id

\* the form ran again after a run that created showtimes and refused one
C10_Witness ==
    /\ last.op = "bulk" /\ last.repeat
    /\ last.prevCreated > 0
    /\ last.failed > 0

\* the (date, position in the time list) pairs a cleaned form asks for
C11_Pairs(sp) ==
    {pr \in (sp.start_date .. sp.end_date) \X (1 .. Len(sp.times)) :
        sp.weekdays = {} \/ (pr[1] % 7) \in sp.weekdays}

C11_StartOf(sp, pr) == pr[1] * MinutesPerDay + sp.times[pr[2]]

\* C11: a run of the bulk form records one outcome (created, skipped or failed) per pair
\* of a date of the range passing the weekday filter and a time of the list, none for
\* any other pair; a candidate refused for a conflict or a missing duration is recorded
\* as failed, is not stored, and the candidates after it are still processed.
C11_OneOutcomePerCandidate ==
    last.op = "bulk" =>
        /\ last.created + last.skipped + last.failed = Cardinality(C11_Pairs(last.spec))
        /\ last.failed = Len(last.failedAt)
        /\ \A i \in 1..Len(last.failedAt) :
               /\ \E pr \in C11_Pairs(last.spec) :
                      C11_StartOf(last.spec, pr) = last.failedAt[i]
               /\ ~AlreadyStored(seances, last.spec.film, last.spec.salle, last.failedAt[i])
        /\ \A pr \in C11_Pairs(last.spec) :
               \/ AlreadyStored(seances, last.spec.film, last.spec.salle,
                                C11_StartOf(last.spec, pr))
               \/ \E i \in 1..Len(last.failedAt) :
                      last.failedAt[i] = C11_StartOf(last.spec, pr)
        /\ MissingDuration(films, last.spec.film) => last.created = 0

\* a run over two days refused the second time of the first day and still created the
\* showtime of the second day
C11_Witness ==
    /\ last.op = "bulk"
    /\ last.spec.start_date < last.spec.end_date
    /\ last.failed > 0 /\ last.created > 0
    /\ \E i \in 1..Len(last.failedAt) : \E s \in seances :
           s.film = last.spec.film /\ s.starts_at > last.failedAt[i]

C12_BadToken(tok) == ~(0 <= tok[1] /\ tok[1] < 24 /\ 0 <= tok[2] /\ tok[2] < 60)

C12_BadTokens(parts) == SelectSeq(parts, C12_BadToken)

\* C12: a form with end_date before start_date, with a token that is no HH:MM time or
\* with no time at all is rejected before anything is expanded: nothing is created,
\* skipped or failed, the store is unchanged, and one error names every invalid token;
\* the form's save runs only on valid data.
C12_InvalidFormRejected ==
    /\ last.op = "bulk_rejected" =>
           /\ last.created = 0 /\ last.skipped = 0 /\ last.failed = 0
           /\ ~last.changed
           /\ last.invalid = C12_BadTokens(last.raw)
           /\ last.end_date_error = (last.spec.end_date < last.spec.start_date)
           /\ \/ last.spec.end_date < last.spec.start_date
              \/ C12_BadTokens(last.raw) # <<>>
              \/ Len(last.raw) = 0
    /\ last.op = "bulk" =>
           /\ last.spec.start_date <= last.spec.end_date
           /\ last.spec.times # <<>>
           /\ \A i \in 1..Len(last.spec.times) :
                  last.spec.times[i] \in 0..(MinutesPerDay - 1)

\* a form naming two invalid tokens around a valid one was rejected while showtimes
\* are stored
C12_Witness ==
    /\ last.op = "bulk_rejected"
    /\ Len(last.invalid) = 2 /\ Len(last.raw) = 3
    /\ seances # {}

\* C13: a showtime save refused by validation (missing duration or conflict) writes
\* nothing: the stored showtimes (so the hall, starts_at and ends_at of the row being
\* updated), every film's stored fields and the next primary key are as before the call.
C13_FailedSaveWritesNothing ==
    [][ (last'.op \in {"create", "update"}
            /\ last'.err \in {"missing_duration", "conflict"})
        => (seances' = seances /\ films' = films /\ nextId' = nextId) ]_vars

\* an update of a stored showtime has just been refused for a conflict
C13_Witness ==
    /\ last.op = "update" /\ last.err = "conflict"
    /\ Cardinality(seances) >= 2

\* C14 (as claimed): when refresh_status(save=True) returns at the end of Seance.save
\* or Seance.delete, the stored status of the film is the one compute_status derives,
\* whatever status the film object held by the request carries.
C14_RefreshPersists ==
    [][ \A p \in ProcIds :
          (procs[p].pc \in {"written", "deleted"} /\ procs'[p].pc = "idle")
          => films'[procs[p].film].status
                 = compute_status(films', seances', procs[p].film, Clock[now']) ]_vars

\* C15 (as claimed): when the status update of a showtime create, update or delete is
\* refused, the caller gets the error and the store does not hold the showtime mutation
\* together with a film status other than the derived one; after a bulk run no candidate
\* reported as failed is stored.
C15_NoHalfCommit ==
    /\ (last.op \in {"create", "update", "delete"} /\ last.err = "db_error") =>
           ~(last.changed /\ films[last.film].status # Derived(last.film))
    /\ last.op = "bulk" =>
           \A i \in 1..Len(last.failedAt) :
               ~AlreadyStored(seances, last.spec.film, last.spec.salle, last.failedAt[i])

====
